---- MODULE Spec2Model ----
(***************************************************************************)
(* Command queues, execution engine and state synchronisation of           *)
(* bevy_kira_audio (src/src/channel.rs, src/src/audio_output.rs).          *)
(*                                                                         *)
(* f64 settings are modelled in tenths (1.0 is 10, 0.5 is 5).  A VecDeque  *)
(* is a sequence whose first element is the front and whose last element   *)
(* is the back.  The kira sound handle of an instance is folded into its   *)
(* InstanceState record (state, volume, panning, playback_rate).           *)
(***************************************************************************)
EXTENDS Integers, Sequences, FiniteSets, TLC

\* ------------------------------------------------------------------ bounds
\* Total number of commands submitted over a behaviour, per specification.
MaxCmds == 2
MaxOrderCmds == 3
MaxSettingsCmds == 3
MaxRegistryCmds == 2
MaxStopCmds == 3
MaxOnceCmds == 2
MaxIsolationCmds == 3
MaxPauseCmds == 3
\* Number of InstanceHandle identifiers that can be minted.
MaxHandles == 2

\* ------------------------------------------------------- program constants
\* ChannelState::default, in tenths.
DEFAULT_VOLUME == 10
DEFAULT_PLAYBACK_RATE == 10
DEFAULT_PANNING == 5

\* ------------------------------------------------------------ input sets
TypedIds == {"T"}
Keys == {"a"}
Sources == {"s1"}
Values == {3, 7}
Responses == {"ok", "full", "err"}

Typed(t) == [tag |-> "Typed", id |-> t]
Dynamic(k) == [tag |-> "Dynamic", id |-> k]
Channel == {Typed(t) : t \in TypedIds} \cup {Dynamic(k) : k \in Keys}

NoSource == "-"
NoHandle == 0

\* AudioCommand; seq is the submission number of the command (history only).
PlayCommand(s, l, h, n) ==
    [kind |-> "Play", source |-> s, looped |-> l, handle |-> h, value |-> 0,
     seq |-> n]
PlainCommand(k, n) ==
    [kind |-> k, source |-> NoSource, looped |-> FALSE, handle |-> NoHandle,
     value |-> 0, seq |-> n]
ValueCommand(k, v, n) ==
    [kind |-> k, source |-> NoSource, looped |-> FALSE, handle |-> NoHandle,
     value |-> v, seq |-> n]

PlainKinds == {"Stop", "Pause", "Resume"}
ValueKinds == {"SetVolume", "SetPanning", "SetPlaybackRate"}

\* ------------------------------------------------------------- VecDeque
push_front(q, c) == <<c>> \o q
back(q) == q[Len(q)]
pop_back(q) == SubSeq(q, 1, Len(q) - 1)
Elements(q) == {q[i] : i \in 1..Len(q)}

Range(f) == {f[x] : x \in DOMAIN f}
EmptyMap == [x \in {} |-> 0]
Insert(m, k, v) == [x \in (DOMAIN m) \cup {k} |-> IF x = k THEN v ELSE m[x]]
Remove(m, k) == [x \in (DOMAIN m) \ {k} |-> m[x]]

\* DynamicAudioChannel::default / AudioChannel::default
DefaultChannel == [commands |-> <<>>, states |-> EmptyMap]

ChannelStateDefault ==
    [volume |-> DEFAULT_VOLUME,
     playback_rate |-> DEFAULT_PLAYBACK_RATE,
     panning |-> DEFAULT_PANNING]

VARIABLES
    manager,          \* AudioOutput.manager is Some
    instances,        \* AudioOutput.instances : Channel -> Vec<InstanceState>
    channels,         \* AudioOutput.channels  : Channel -> ChannelState
    typed_channels,   \* the AudioChannel<T> resources
    dynamic_channels, \* DynamicAudioChannels.channels
    audio_sources,    \* Assets<AudioSource>: the loaded sources
    next_handle,      \* InstanceHandle::new
    next_seq,         \* submissions so far (history)
    pc,               \* position of the tick driver
    todo,             \* channels the current phase of the tick still visits
    cur,              \* the drain in progress (holder of a commands write lock)
    calls,            \* backend calls of the latest command execution (history)
    retried,          \* per channel: seq numbers its latest drain re-queued
    reported,         \* handles the backend reported Stopped before a tick began
    settled,          \* handles reported Stopped before a completed tick began
    panicked,         \* the process aborted
    focus,            \* the channels the callers of this behaviour submit to
    discarded,        \* commands dropped with the channel object that held them
    configured,       \* channels a setting command ran on since they were created
    inherited         \* handles live under a key when its channel was replaced or removed

vars == <<manager, instances, channels, typed_channels, dynamic_channels,
          audio_sources, next_handle, next_seq, pc, todo, cur, calls,
          retried, reported, settled, panicked, focus, discarded,
          configured, inherited>>

\* The history of the registry and of the settings.
history == <<discarded, configured, inherited>>

NoDrain == [active |-> FALSE]

\* The channel objects that exist, by Channel identity.
Exists(ch) ==
    IF ch.tag = "Typed" THEN ch.id \in DOMAIN typed_channels
    ELSE ch.id \in DOMAIN dynamic_channels
ChannelObj(ch) ==
    IF ch.tag = "Typed" THEN typed_channels[ch.id] ELSE dynamic_channels[ch.id]
Commands(ch) == ChannelObj(ch).commands
States(ch) == ChannelObj(ch).states

\* The commands write lock of ch is held by the drain in progress.
Locked(ch) == cur.active /\ cur.channel = ch

\* ---------------------------------------------------------- AudioOutput
\* self.instances.get(channel), an absent entry read as the empty Vec.
InstancesOf(ins, ch) == IF ch \in DOMAIN ins THEN ins[ch] ELSE <<>>
AllHandles(list) == {list[i].handle : i \in 1..Len(list)}

Min(S) == CHOOSE x \in S : \A y \in S : x <= y

\* One record per backend call: the instance it was issued to and the answer.
Call(op, inst, v, r) ==
    [op |-> op, handle |-> inst.handle, value |-> v, response |-> r]
CallsTo(list, targets, op, v, res) ==
    LET all == [i \in 1..Len(list) |-> Call(op, list[i], v, res[i])]
    IN  SelectSeq(all, LAMBDA c : c.handle \in targets)

Outcome(result, ins, chs, cs, panic) ==
    [result |-> result, instances |-> ins, channels |-> chs, calls |-> cs,
     panic |-> panic]

\* A stop that goes through every instance and never asks for a retry.
stop_without_retry(ins, chs, ch, res) ==
    LET list == InstancesOf(ins, ch)
        cs   == [i \in 1..Len(list) |-> Call("stop", list[i], 0, res[i])]
    IN  Outcome("Ok", ins, chs, cs, FALSE)

\* AudioOutput::stop: stop every instance in order, give up at the first
\* CommandQueueFull.
stop(ins, chs, ch, res) ==
    LET list == InstancesOf(ins, ch)
        full == {i \in 1..Len(list) : res[i] = "full"}
        n    == IF full = {} THEN Len(list) ELSE Min(full)
        cs   == [i \in 1..n |-> Call("stop", list[i], 0, res[i])]
    IN  Outcome(IF full = {} THEN "Ok" ELSE "Retry", ins, chs, cs, FALSE)

\* A pause that asks for a retry when the backend answers command-queue-full.
pause_with_retry(ins, chs, ch, res) ==
    LET list == InstancesOf(ins, ch)
        hit  == {list[i].handle : i \in {j \in 1..Len(list) : list[j].state = "Playing"}}
        new  == [i \in 1..Len(list) |->
                   IF list[i].handle \in hit /\ res[i] = "ok"
                   THEN [list[i] EXCEPT !.state = "Paused"] ELSE list[i]]
        cs   == CallsTo(list, hit, "pause", 0, res)
    IN  Outcome(IF \E c \in Range(cs) : c.response = "full" THEN "Retry" ELSE "Ok",
                IF ch \in DOMAIN ins THEN [ins EXCEPT ![ch] = new] ELSE ins,
                chs, cs, FALSE)

\* AudioOutput::pause: only the instances whose kira state is Playing.
pause(ins, chs, ch, res) ==
    LET list == InstancesOf(ins, ch)
        hit  == {list[i].handle : i \in {j \in 1..Len(list) : list[j].state = "Playing"}}
        new  == [i \in 1..Len(list) |->
                   IF list[i].handle \in hit /\ res[i] = "ok"
                   THEN [list[i] EXCEPT !.state = "Paused"] ELSE list[i]]
    IN  Outcome("Ok",
                IF ch \in DOMAIN ins THEN [ins EXCEPT ![ch] = new] ELSE ins,
                chs, CallsTo(list, hit, "pause", 0, res), FALSE)

\* A resume issued to every instance of the channel, whatever its state.
resume_all(ins, chs, ch, res) ==
    LET list == InstancesOf(ins, ch)
        new  == [i \in 1..Len(list) |->
                   IF res[i] = "ok" THEN [list[i] EXCEPT !.state = "Playing"]
                   ELSE list[i]]
    IN  Outcome("Ok",
                IF ch \in DOMAIN ins THEN [ins EXCEPT ![ch] = new] ELSE ins,
                chs, CallsTo(list, AllHandles(list), "resume", 0, res), FALSE)

\* AudioOutput::resume: only the instances whose kira state is Paused.
resume(ins, chs, ch, res) ==
    LET list == InstancesOf(ins, ch)
        hit  == {list[i].handle : i \in {j \in 1..Len(list) : list[j].state = "Paused"}}
        new  == [i \in 1..Len(list) |->
                   IF list[i].handle \in hit /\ res[i] = "ok"
                   THEN [list[i] EXCEPT !.state = "Playing"] ELSE list[i]]
    IN  Outcome("Ok",
                IF ch \in DOMAIN ins THEN [ins EXCEPT ![ch] = new] ELSE ins,
                chs, CallsTo(list, hit, "resume", 0, res), FALSE)

\* A set_volume that stores the volume only when the channel has no settings
\* record yet.
set_volume_if_absent(ins, chs, ch, volume, res) ==
    LET list == InstancesOf(ins, ch)
        new  == [i \in 1..Len(list) |->
                   IF res[i] = "ok" THEN [list[i] EXCEPT !.volume = volume]
                   ELSE list[i]]
    IN  Outcome("Ok",
                IF ch \in DOMAIN ins THEN [ins EXCEPT ![ch] = new] ELSE ins,
                IF ch \in DOMAIN chs THEN chs
                ELSE Insert(chs, ch, [ChannelStateDefault EXCEPT !.volume = volume]),
                CallsTo(list, AllHandles(list), "set_volume", volume, res), FALSE)

\* AudioOutput::set_volume
set_volume(ins, chs, ch, volume, res) ==
    LET list == InstancesOf(ins, ch)
        new  == [i \in 1..Len(list) |->
                   IF res[i] = "ok" THEN [list[i] EXCEPT !.volume = volume]
                   ELSE list[i]]
    IN  Outcome("Ok",
                IF ch \in DOMAIN ins THEN [ins EXCEPT ![ch] = new] ELSE ins,
                IF ch \in DOMAIN chs THEN [chs EXCEPT ![ch].volume = volume]
                ELSE Insert(chs, ch, [ChannelStateDefault EXCEPT !.volume = volume]),
                CallsTo(list, AllHandles(list), "set_volume", volume, res), FALSE)

\* A set_panning that stores the panning in the settings record of every
\* channel, creating the records that are absent.
set_panning_every_channel(ins, chs, ch, panning, res) ==
    LET list == InstancesOf(ins, ch)
        new  == [i \in 1..Len(list) |->
                   IF res[i] = "ok" THEN [list[i] EXCEPT !.panning = panning]
                   ELSE list[i]]
        all  == [x \in DOMAIN chs \cup Channel |->
                   IF x \in DOMAIN chs THEN chs[x] ELSE ChannelStateDefault]
    IN  Outcome("Ok",
                IF ch \in DOMAIN ins THEN [ins EXCEPT ![ch] = new] ELSE ins,
                [x \in DOMAIN all |-> [all[x] EXCEPT !.panning = panning]],
                CallsTo(list, AllHandles(list), "set_panning", panning, res), FALSE)

\* AudioOutput::set_panning
set_panning(ins, chs, ch, panning, res) ==
    LET list == InstancesOf(ins, ch)
        new  == [i \in 1..Len(list) |->
                   IF res[i] = "ok" THEN [list[i] EXCEPT !.panning = panning]
                   ELSE list[i]]
    IN  Outcome("Ok",
                IF ch \in DOMAIN ins THEN [ins EXCEPT ![ch] = new] ELSE ins,
                IF ch \in DOMAIN chs THEN [chs EXCEPT ![ch].panning = panning]
                ELSE Insert(chs, ch, [ChannelStateDefault EXCEPT !.panning = panning]),
                CallsTo(list, AllHandles(list), "set_panning", panning, res), FALSE)

\* AudioOutput::set_playback_rate
set_playback_rate(ins, chs, ch, playback_rate, res) ==
    LET list == InstancesOf(ins, ch)
        new  == [i \in 1..Len(list) |->
                   IF res[i] = "ok"
                   THEN [list[i] EXCEPT !.playback_rate = playback_rate]
                   ELSE list[i]]
    IN  Outcome("Ok",
                IF ch \in DOMAIN ins THEN [ins EXCEPT ![ch] = new] ELSE ins,
                IF ch \in DOMAIN chs
                THEN [chs EXCEPT ![ch].playback_rate = playback_rate]
                ELSE Insert(chs, ch,
                            [ChannelStateDefault EXCEPT !.playback_rate = playback_rate]),
                CallsTo(list, AllHandles(list), "set_playback_rate",
                        playback_rate, res), FALSE)

\* The settings of the decoded sound of an AudioSource (kira's defaults).
SourceSound ==
    [volume |-> DEFAULT_VOLUME, playback_rate |-> DEFAULT_PLAYBACK_RATE,
     panning |-> DEFAULT_PANNING, loop_behavior |-> FALSE]

\* An apply that leaves the volume of the sound as it is.
apply_without_volume(channel_state, sound) ==
    [sound EXCEPT !.playback_rate = channel_state.playback_rate,
                  !.panning = channel_state.panning]

\* ChannelState::apply
apply(channel_state, sound) ==
    [sound EXCEPT !.volume = channel_state.volume,
                  !.playback_rate = channel_state.playback_rate,
                  !.panning = channel_state.panning]

\* A play that starts the instance and asks for the command to be retried.
play_and_retry(ins, chs, ch, looped, instance_handle, played) ==
    LET s1 == IF ch \in DOMAIN chs THEN apply(chs[ch], SourceSound)
              ELSE SourceSound
        instance_state ==
            [handle |-> instance_handle, state |-> "Playing",
             volume |-> s1.volume, playback_rate |-> s1.playback_rate,
             panning |-> s1.panning, loop_behavior |-> looped]
    IN  IF ~played THEN Outcome("Ok", ins, chs, <<>>, TRUE)
        ELSE Outcome("Retry",
                     IF ch \in DOMAIN ins
                     THEN [ins EXCEPT ![ch] = Append(@, instance_state)]
                     ELSE Insert(ins, ch, <<instance_state>>),
                     chs, <<>>, FALSE)

\* AudioOutput::play; played is the answer of manager.play (expect panics).
play(ins, chs, ch, looped, instance_handle, played) ==
    LET s1 == IF ch \in DOMAIN chs THEN apply(chs[ch], SourceSound)
              ELSE SourceSound
        sound == IF looped /\ ~s1.loop_behavior
                 THEN [s1 EXCEPT !.loop_behavior = TRUE] ELSE s1
        instance_state ==
            [handle |-> instance_handle, state |-> "Playing",
             volume |-> sound.volume, playback_rate |-> sound.playback_rate,
             panning |-> sound.panning, loop_behavior |-> sound.loop_behavior]
    IN  IF ~played THEN Outcome("Ok", ins, chs, <<>>, TRUE)
        ELSE Outcome("Ok",
                     IF ch \in DOMAIN ins
                     THEN [ins EXCEPT ![ch] = Append(@, instance_state)]
                     ELSE Insert(ins, ch, <<instance_state>>),
                     chs, <<>>, FALSE)

\* AudioOutput::run_audio_command
run_audio_command(ins, chs, srcs, audio_command, ch, res, played) ==
    CASE audio_command.kind = "Play" ->
           IF audio_command.source \in srcs
           THEN play(ins, chs, ch, audio_command.looped, audio_command.handle, played)
           ELSE Outcome("Retry", ins, chs, <<>>, FALSE)
      [] audio_command.kind = "Stop" -> stop(ins, chs, ch, res)
      [] audio_command.kind = "Pause" -> pause(ins, chs, ch, res)
      [] audio_command.kind = "Resume" -> resume(ins, chs, ch, res)
      [] audio_command.kind = "SetVolume" ->
           set_volume(ins, chs, ch, audio_command.value, res)
      [] audio_command.kind = "SetPanning" ->
           set_panning(ins, chs, ch, audio_command.value, res)
      [] audio_command.kind = "SetPlaybackRate" ->
           set_playback_rate(ins, chs, ch, audio_command.value, res)

\* A retain that prunes nothing.
RetainAll(list) == list

\* A cleanup that keeps only the records whose backend state is Playing.
cleanup_all_but_playing(ins) ==
    [ch \in DOMAIN ins |-> SelectSeq(ins[ch], LAMBDA instance : instance.state = "Playing")]

\* AudioOutput::cleanup_stopped_instances
Retain(list) == SelectSeq(list, LAMBDA instance : instance.state /= "Stopped")
cleanup_stopped_instances(ins) == [ch \in DOMAIN ins |-> Retain(ins[ch])]

\* From<&InstanceState> for PlaybackState
PlaybackStateOf(instance_state) == instance_state.state

\* update_instance_states: the states map of the channel, republished.
RECURSIVE Republish(_, _)
Republish(list, n) ==
    IF n = 0 THEN EmptyMap
    ELSE Insert(Republish(list, n - 1), list[n].handle, PlaybackStateOf(list[n]))

\* ---------------------------------------------------- AudioControl::state
\* commands.iter().find(Play with this handle), from the front.
RECURSIVE Find(_, _, _)
Find(q, instance_handle, i) ==
    IF i > Len(q) THEN FALSE
    ELSE IF q[i].kind = "Play" /\ q[i].handle = instance_handle THEN TRUE
    ELSE Find(q, instance_handle, i + 1)

\* A search of the queue that misses the command at the front.
state_skip_front(self, instance_handle) ==
    IF instance_handle \in DOMAIN self.states
    THEN self.states[instance_handle]
    ELSE IF Find(self.commands, instance_handle, 2) THEN "Queued"
    ELSE "Stopped"

state(self, instance_handle) ==
    IF instance_handle \in DOMAIN self.states
    THEN self.states[instance_handle]
    ELSE IF Find(self.commands, instance_handle, 1) THEN "Queued"
    ELSE "Stopped"

\* AudioChannel<T>: the same control contract on a typed channel.  Enqueue
\* pushes to the front; state is the published state, else Queued if a Play
\* with the handle is in the queue, else Stopped.
AudioChannel_enqueue(commands, command) == <<command>> \o commands
AudioChannel_state(self, instance_handle) ==
    IF instance_handle \in DOMAIN self.states
    THEN self.states[instance_handle]
    ELSE IF \E i \in 1..Len(self.commands) :
               self.commands[i].kind = "Play"
                 /\ self.commands[i].handle = instance_handle
         THEN "Queued"
         ELSE "Stopped"

\* state(handle) asked of the channel object that ch names.
StateOf(ch, instance_handle) ==
    IF ch.tag = "Typed"
    THEN AudioChannel_state(typed_channels[ch.id], instance_handle)
    ELSE state(dynamic_channels[ch.id], instance_handle)

\* ------------------------------------------------------------------ Init
\* AudioOutput::from_world with a working backend, AudioChannel::default for
\* every typed channel, DynamicAudioChannels::default.
Fresh ==
    /\ instances = EmptyMap
    /\ channels = EmptyMap
    /\ typed_channels = [t \in TypedIds |-> DefaultChannel]
    /\ dynamic_channels = EmptyMap
    /\ audio_sources = {}
    /\ next_handle = 1
    /\ next_seq = 0
    /\ pc = "idle"
    /\ todo = {}
    /\ cur = NoDrain
    /\ calls = <<>>
    /\ retried = [ch \in Channel |-> {}]
    /\ reported = {}
    /\ settled = {}
    /\ panicked = FALSE
    /\ discarded = {}
    /\ configured = {}
    /\ inherited = {}

Constructed == manager = TRUE /\ Fresh

\* The callers submit to every channel.
Init == Constructed /\ focus = Channel

\* The callers of one behaviour submit to one channel, typed or dynamic.
InitOne == Constructed /\ focus \in {{ch} : ch \in Channel}

\* AudioOutput::from_world when AudioManager::new may fail: manager is None.
InitAny == manager \in BOOLEAN /\ Fresh /\ focus \in {{ch} : ch \in Channel}

\* play_dynamic_channels holds Res<DynamicAudioChannels> while it runs.
RegistryBorrowed == pc = "dynamic" /\ (todo /= {} \/ cur.active)
\* A drain system holds Res<Assets<AudioSource>> while it runs.
AssetsBorrowed == cur.active \/ RegistryBorrowed

SetChannelObj(ch, obj) ==
    IF ch.tag = "Typed"
    THEN /\ typed_channels' = [typed_channels EXCEPT ![ch.id] = obj]
         /\ UNCHANGED dynamic_channels
    ELSE /\ dynamic_channels' = [dynamic_channels EXCEPT ![ch.id] = obj]
         /\ UNCHANGED typed_channels

\* self.commands.write().push_front(command)
Enqueue(ch, command, cap) ==
    /\ ~panicked
    /\ ch \in focus
    /\ Exists(ch)
    /\ ~Locked(ch)
    /\ next_seq < cap
    /\ next_seq' = next_seq + 1
    /\ SetChannelObj(ch, [ChannelObj(ch) EXCEPT !.commands =
           IF ch.tag = "Typed" THEN AudioChannel_enqueue(@, command)
           ELSE push_front(@, command)])

\* AudioControl::play and play_looped (intro_source is never read by the engine)
Play(ch, audio_source, looped, cap) ==
    /\ next_handle <= MaxHandles
    /\ Enqueue(ch, PlayCommand(audio_source, looped, next_handle, next_seq + 1), cap)
    /\ next_handle' = next_handle + 1
    /\ UNCHANGED <<history, focus, reported, settled, manager, instances, channels, audio_sources, pc, todo, cur,
                   calls, retried, panicked>>

\* AudioControl::stop, pause, resume
Plain(ch, kind, cap) ==
    /\ Enqueue(ch, PlainCommand(kind, next_seq + 1), cap)
    /\ UNCHANGED <<history, focus, reported, settled, manager, instances, channels, audio_sources, next_handle,
                   pc, todo, cur, calls, retried, panicked>>

\* AudioControl::set_volume, set_panning, set_playback_rate
SetValue(ch, kind, v, cap) ==
    /\ Enqueue(ch, ValueCommand(kind, v, next_seq + 1), cap)
    /\ UNCHANGED <<history, focus, reported, settled, manager, instances, channels, audio_sources, next_handle,
                   pc, todo, cur, calls, retried, panicked>>

\* AudioControl::state: a read; it waits for the commands lock only when the
\* handle has no published state.
PlaybackStates == {"Queued", "Playing", "Paused", "Stopped"}
CanQuery(ch, h) == Exists(ch) /\ (h \in DOMAIN States(ch) \/ ~Locked(ch))
Query(ch, h) ==
    /\ ~panicked
    /\ CanQuery(ch, h)
    /\ StateOf(ch, h) \in PlaybackStates
    /\ UNCHANGED vars

\* A create_channel that keeps the channel object of an existing key.
create_channel_or_keep(key) ==
    /\ ~panicked
    /\ ~RegistryBorrowed
    /\ dynamic_channels' = IF key \in DOMAIN dynamic_channels THEN dynamic_channels
                           ELSE Insert(dynamic_channels, key, DefaultChannel)
    /\ retried' = [retried EXCEPT ![Dynamic(key)] = {}]
    /\ discarded' = IF key \in DOMAIN dynamic_channels
                    THEN discarded \cup Elements(dynamic_channels[key].commands)
                    ELSE discarded
    /\ configured' = configured \ {Dynamic(key)}
    /\ inherited' = inherited \cup AllHandles(InstancesOf(instances, Dynamic(key)))
    /\ UNCHANGED <<focus, reported, settled, manager, instances, channels, typed_channels, audio_sources,
                   next_handle, next_seq, pc, todo, cur, calls, panicked>>

\* DynamicAudioChannels::create_channel
create_channel(key) ==
    /\ ~panicked
    /\ ~RegistryBorrowed
    /\ dynamic_channels' = Insert(dynamic_channels, key, DefaultChannel)
    /\ retried' = [retried EXCEPT ![Dynamic(key)] = {}]
    /\ discarded' = IF key \in DOMAIN dynamic_channels
                    THEN discarded \cup Elements(dynamic_channels[key].commands)
                    ELSE discarded
    /\ configured' = configured \ {Dynamic(key)}
    /\ inherited' = inherited \cup AllHandles(InstancesOf(instances, Dynamic(key)))
    /\ UNCHANGED <<focus, reported, settled, manager, instances, channels, typed_channels, audio_sources,
                   next_handle, next_seq, pc, todo, cur, calls, panicked>>

\* create_channel as the first creation of the key.
create_new_channel(key) ==
    /\ key \notin DOMAIN dynamic_channels
    /\ create_channel(key)

\* A lookup that inserts a default channel under a missing key.
channel_or_create(key) ==
    /\ ~panicked
    /\ ~RegistryBorrowed
    /\ dynamic_channels' = IF key \in DOMAIN dynamic_channels THEN dynamic_channels
                           ELSE Insert(dynamic_channels, key, DefaultChannel)
    /\ UNCHANGED <<history, focus, reported, settled, manager, instances, channels, typed_channels,
                   audio_sources, next_handle, next_seq, pc, todo, cur, calls,
                   retried, panicked>>

\* DynamicAudioChannels::channel: the assert on a missing key.
channel(key) ==
    /\ ~panicked
    /\ panicked' = (key \notin DOMAIN dynamic_channels)
    /\ UNCHANGED <<history, focus, reported, settled, manager, instances, channels, typed_channels,
                   dynamic_channels, audio_sources, next_handle, next_seq, pc,
                   todo, cur, calls, retried>>

\* A remove_channel that enqueues the Stop and leaves the channel in place.
remove_channel_stop_only(key) ==
    /\ ~panicked
    /\ ~RegistryBorrowed
    /\ IF key \notin DOMAIN dynamic_channels
       THEN /\ panicked' = TRUE
            /\ UNCHANGED dynamic_channels
       ELSE /\ dynamic_channels' = [dynamic_channels EXCEPT ![key].commands =
                                       push_front(@, PlainCommand("Stop", 0))]
            /\ UNCHANGED panicked
    /\ UNCHANGED <<history, retried, focus, reported, settled, manager, instances, channels, typed_channels, audio_sources,
                   next_handle, next_seq, pc, todo, cur, calls>>

\* DynamicAudioChannels::remove_channel: channel(key).stop(), then remove.
remove_channel(key) ==
    /\ ~panicked
    /\ ~RegistryBorrowed
    /\ IF key \notin DOMAIN dynamic_channels
       THEN /\ panicked' = TRUE
            /\ UNCHANGED <<dynamic_channels, retried, discarded, inherited>>
       ELSE LET stopped == [dynamic_channels EXCEPT ![key].commands =
                               push_front(@, PlainCommand("Stop", 0))]
            IN  /\ dynamic_channels' = Remove(stopped, key)
                /\ retried' = [retried EXCEPT ![Dynamic(key)] = {}]
                /\ discarded' = discarded \cup Elements(stopped[key].commands)
                /\ inherited' = inherited \cup AllHandles(InstancesOf(instances, Dynamic(key)))
                /\ UNCHANGED panicked
    /\ UNCHANGED <<configured, focus, reported, settled, manager, instances, channels, typed_channels, audio_sources,
                   next_handle, next_seq, pc, todo, cur, calls>>

\* The asset server finishes loading a source / a source is removed.
LoadAsset(s) ==
    /\ ~panicked
    /\ ~AssetsBorrowed
    /\ s \notin audio_sources
    /\ audio_sources' = audio_sources \cup {s}
    /\ UNCHANGED <<history, focus, reported, settled, manager, instances, channels, typed_channels,
                   dynamic_channels, next_handle, next_seq, pc, todo, cur,
                   calls, retried, panicked>>

RemoveAsset(s) ==
    /\ ~panicked
    /\ ~AssetsBorrowed
    /\ s \in audio_sources
    /\ audio_sources' = audio_sources \ {s}
    /\ UNCHANGED <<history, focus, reported, settled, manager, instances, channels, typed_channels,
                   dynamic_channels, next_handle, next_seq, pc, todo, cur,
                   calls, retried, panicked>>

\* The backend reports an instance Stopped (the sound ended, or a stop it
\* accepted has faded out).
KiraStops(ch, i) ==
    /\ ~panicked
    /\ ch \in DOMAIN instances
    /\ i \in 1..Len(instances[ch])
    /\ instances[ch][i].state /= "Stopped"
    /\ instances' = [instances EXCEPT ![ch][i].state = "Stopped"]
    /\ UNCHANGED <<history, focus, reported, settled, manager, channels, typed_channels, dynamic_channels,
                   audio_sources, next_handle, next_seq, pc, todo, cur, calls,
                   retried, panicked>>

\* ------------------------------------------------------------ tick driver
\* The handles of the live instance records whose kira state is Stopped.
StoppedHandles(ins) ==
    UNION {{ins[ch][i].handle : i \in {j \in 1..Len(ins[ch]) : ins[ch][j].state = "Stopped"}}
           : ch \in DOMAIN ins}

StartTick ==
    /\ ~panicked
    /\ pc = "idle"
    /\ pc' = "typed"
    /\ todo' = TypedIds
    /\ reported' = reported \cup StoppedHandles(instances)
    /\ UNCHANGED <<history, focus, settled, manager, instances, channels, typed_channels,
                   dynamic_channels, audio_sources, next_handle, next_seq, cur,
                   calls, retried, panicked>>

\* let mut commands = channel.commands.write(); let len = commands.len();
\* snapshot, settings and carried record the queue, the channel settings and
\* the commands the previous drain re-queued, as they are when the lock is
\* taken (history only).
BeginDrain(ch) ==
    [active |-> TRUE, channel |-> ch, len |-> Len(Commands(ch)), i |-> 0,
     snapshot |-> Commands(ch), settings |-> channels,
     carried |-> retried[ch], attempted |-> <<>>]

\* play_audio_channel::<T> / AudioOutput::play_channel up to the loop
play_channel(t) ==
    /\ ~panicked
    /\ pc = "typed"
    /\ t \in todo
    /\ ~cur.active
    /\ IF ~manager
       THEN /\ todo' = todo \ {t}
            /\ UNCHANGED <<cur, retried, calls>>
       ELSE /\ cur' = BeginDrain(Typed(t))
            /\ retried' = [retried EXCEPT ![Typed(t)] = {}]
            /\ calls' = <<>>
            /\ UNCHANGED todo
    /\ UNCHANGED <<history, focus, reported, settled, manager, instances, channels, typed_channels,
                   dynamic_channels, audio_sources, next_handle, next_seq, pc,
                   panicked>>

\* play_dynamic_channels (the system) / AudioOutput::play_dynamic_channels up
\* to the iteration over the registry
play_dynamic_channels ==
    /\ ~panicked
    /\ pc = "typed"
    /\ todo = {}
    /\ ~cur.active
    /\ pc' = "dynamic"
    /\ todo' = IF manager THEN DOMAIN dynamic_channels ELSE {}
    /\ UNCHANGED <<history, focus, reported, settled, manager, instances, channels, typed_channels,
                   dynamic_channels, audio_sources, next_handle, next_seq, cur,
                   calls, retried, panicked>>

\* for (key, channel) in channels.channels.iter(): take the lock and the length
DynamicDrain(key) ==
    /\ ~panicked
    /\ pc = "dynamic"
    /\ key \in todo
    /\ ~cur.active
    /\ cur' = BeginDrain(Dynamic(key))
    /\ retried' = [retried EXCEPT ![Dynamic(key)] = {}]
    /\ calls' = <<>>
    /\ UNCHANGED <<history, focus, reported, settled, manager, instances, channels, typed_channels,
                   dynamic_channels, audio_sources, next_handle, next_seq, pc,
                   todo, panicked>>

\* A drain that runs until the queue is empty instead of len times.
DrainUntilEmpty(drain, commands) == Len(commands) > 0

\* while i < len
DrainContinues(drain, commands) == drain.i < drain.len

\* The answers the backend can give to the calls of one command execution.
Answers(audio_command, ch) ==
    IF audio_command.kind = "Play" THEN {<<>>}
    ELSE [1..Len(InstancesOf(instances, ch)) -> Responses]
Played(audio_command) ==
    IF audio_command.kind = "Play" /\ audio_command.source \in audio_sources
    THEN BOOLEAN ELSE {TRUE}

\* A re-queue at the back of the queue, where the next pop_back finds it.
RequeueBack(commands, audio_command, result) ==
    IF result = "Retry" THEN Append(commands, audio_command) ELSE commands

\* A re-queue that is skipped when the pop has emptied the queue.
RequeueUnlessEmpty(commands, audio_command, result) ==
    IF result = "Retry" /\ commands /= <<>>
    THEN push_front(commands, audio_command) ELSE commands

\* if let AudioCommandResult::Retry = result { commands.push_front(audio_command) }
Requeue(commands, audio_command, result) ==
    IF result = "Retry" THEN push_front(commands, audio_command) ELSE commands

\* One iteration of the drain loop: pop_back, run_audio_command, re-queue on
\* Retry, i += 1.
DrainStep ==
    /\ ~panicked
    /\ cur.active
    /\ DrainContinues(cur, Commands(cur.channel))
    /\ LET ch == cur.channel
           audio_command == back(Commands(ch))
           popped == pop_back(Commands(ch))
       IN  \E res \in Answers(audio_command, ch), played \in Played(audio_command) :
             LET out == run_audio_command(instances, channels, audio_sources,
                                          audio_command, ch, res, played)
             IN  IF out.panic
                 THEN /\ panicked' = TRUE
                      /\ UNCHANGED <<instances, channels, typed_channels,
                                     dynamic_channels, cur, calls, retried,
                                     configured>>
                 ELSE /\ instances' = out.instances
                      /\ channels' = out.channels
                      /\ calls' = out.calls
                      /\ SetChannelObj(ch, [ChannelObj(ch) EXCEPT !.commands =
                             Requeue(popped, audio_command, out.result)])
                      /\ retried' = IF out.result = "Retry"
                                    THEN [retried EXCEPT ![ch] = @ \cup {audio_command.seq}]
                                    ELSE retried
                      /\ cur' = [cur EXCEPT !.i = @ + 1,
                                            !.attempted = Append(@, audio_command.seq)]
                      /\ configured' = IF audio_command.kind \in ValueKinds
                                       THEN configured \cup {ch} ELSE configured
                      /\ UNCHANGED panicked
    /\ UNCHANGED <<discarded, inherited, focus, reported, settled, manager, audio_sources, next_handle, next_seq,
                   pc, todo>>

\* The loop ends and the write lock is dropped.
DrainEnd ==
    /\ ~panicked
    /\ cur.active
    /\ ~DrainContinues(cur, Commands(cur.channel))
    /\ cur' = NoDrain
    /\ calls' = <<>>
    /\ todo' = todo \ {cur.channel.id}
    /\ UNCHANGED <<history, focus, reported, settled, manager, instances, channels, typed_channels,
                   dynamic_channels, audio_sources, next_handle, next_seq, pc,
                   retried, panicked>>

\* cleanup_stopped_instances (the system), once every channel has drained
CleanupStoppedInstances ==
    /\ ~panicked
    /\ pc = "dynamic"
    /\ todo = {}
    /\ ~cur.active
    /\ instances' = cleanup_stopped_instances(instances)
    /\ pc' = "update"
    /\ todo' = TypedIds
    /\ UNCHANGED <<history, focus, reported, settled, manager, channels, typed_channels, dynamic_channels,
                   audio_sources, next_handle, next_seq, cur, calls, retried,
                   panicked>>

\* update_instance_states::<T>
update_instance_states(t) ==
    /\ ~panicked
    /\ pc = "update"
    /\ t \in todo
    /\ IF Typed(t) \in DOMAIN instances
       THEN typed_channels' = [typed_channels EXCEPT ![t].states =
                Republish(instances[Typed(t)], Len(instances[Typed(t)]))]
       ELSE UNCHANGED typed_channels
    /\ todo' = todo \ {t}
    /\ pc' = IF todo \ {t} = {} THEN "idle" ELSE "update"
    /\ settled' = IF todo \ {t} = {} THEN reported ELSE settled
    /\ UNCHANGED <<history, focus, reported, manager, instances, channels, dynamic_channels,
                   audio_sources, next_handle, next_seq, cur, calls, retried,
                   panicked>>

\* ------------------------------------------------------------------ Next
\* The callers of the registry, the asset server, the backend, state queries.
Registry ==
    \/ \E key \in Keys : create_channel(key)
    \/ \E key \in Keys : channel(key)
    \/ \E key \in Keys : remove_channel(key)

Environment ==
    \/ \E ch \in Channel, h \in 1..MaxHandles : Query(ch, h)
    \/ \E s \in Sources : LoadAsset(s)
    \/ \E s \in Sources : RemoveAsset(s)
    \/ \E ch \in Channel, i \in 1..MaxHandles : KiraStops(ch, i)

\* One tick: the typed channels drain, the dynamic channels drain, stopped
\* instances are pruned, the typed channels' states are republished.
Engine ==
    \/ StartTick
    \/ \E t \in TypedIds : play_channel(t)
    \/ play_dynamic_channels
    \/ \E key \in Keys : DynamicDrain(key)
    \/ DrainStep
    \/ DrainEnd
    \/ CleanupStoppedInstances
    \/ \E t \in TypedIds : update_instance_states(t)

\* Every command of the AudioControl contract.
Next ==
    \/ \E ch \in Channel, s \in Sources, l \in BOOLEAN : Play(ch, s, l, MaxCmds)
    \/ \E ch \in Channel, k \in PlainKinds : Plain(ch, k, MaxCmds)
    \/ \E ch \in Channel, k \in ValueKinds, v \in Values : SetValue(ch, k, v, MaxCmds)
    \/ Registry
    \/ Environment
    \/ Engine

Spec == Init /\ [][Next]_vars

\* Callers that play, stop, pause and resume: the ordering and state claims.
\* The dynamic channel is created once; overwriting and removal are left to
\* the registry specification.
OrderKinds == {"Stop", "Pause", "Resume"}
NextOrder ==
    \/ \E ch \in Channel, s \in Sources : Play(ch, s, FALSE, MaxOrderCmds)
    \/ \E ch \in Channel, k \in OrderKinds : Plain(ch, k, MaxOrderCmds)
    \/ \E key \in Keys : create_new_channel(key)
    \/ Environment
    \/ Engine

SpecOrder == InitOne /\ [][NextOrder]_vars

\* The same callers on a typed and a dynamic channel at once.
SpecPair == Init /\ [][NextOrder]_vars

\* The same callers on an engine whose backend may have failed to start.
SpecBoot == InitAny /\ [][NextOrder]_vars

\* Callers that play and stop, with the systems run in every frame for ever.
NextStop ==
    \/ \E ch \in Channel, s \in Sources : Play(ch, s, FALSE, MaxStopCmds)
    \/ \E ch \in Channel : Plain(ch, "Stop", MaxStopCmds)
    \/ \E key \in Keys : create_new_channel(key)
    \/ \E s \in Sources : LoadAsset(s)
    \/ \E ch \in Channel, i \in 1..MaxHandles : KiraStops(ch, i)
    \/ Engine

SpecStop == InitOne /\ [][NextStop]_vars /\ WF_vars(Engine)

\* Callers that play, pause, resume and change the settings: the commands that
\* are attempted once.
OnceKinds == {"Pause", "Resume"} \cup ValueKinds
OnceChoices == {<<"SetVolume", 3>>, <<"SetPanning", 3>>, <<"SetPlaybackRate", 7>>}
NextOnce ==
    \/ \E ch \in Channel, s \in Sources : Play(ch, s, FALSE, MaxOnceCmds)
    \/ \E ch \in Channel, k \in {"Pause", "Resume"} : Plain(ch, k, MaxOnceCmds)
    \/ \E ch \in Channel, kv \in OnceChoices : SetValue(ch, kv[1], kv[2], MaxOnceCmds)
    \/ \E key \in Keys : create_new_channel(key)
    \/ \E s \in Sources : LoadAsset(s)
    \/ \E ch \in Channel, i \in 1..MaxHandles : KiraStops(ch, i)
    \/ Engine

SpecOnce == InitOne /\ [][NextOnce]_vars

\* Callers that play, pause and resume on a typed and a dynamic channel.
NextPause ==
    \/ \E ch \in Channel, s \in Sources : Play(ch, s, FALSE, MaxPauseCmds)
    \/ \E ch \in Channel, k \in {"Pause", "Resume"} : Plain(ch, k, MaxPauseCmds)
    \/ \E key \in Keys : create_new_channel(key)
    \/ \E s \in Sources : LoadAsset(s)
    \/ \E ch \in Channel, i \in 1..MaxHandles : KiraStops(ch, i)
    \/ Engine

SpecPause == Init /\ [][NextPause]_vars

\* Callers that play, stop and change the channel settings, with assets that
\* load and stay loaded: the settings claims.
SettingChoices ==
    {<<"SetVolume", 3>>, <<"SetVolume", 7>>, <<"SetPanning", 3>>,
     <<"SetPlaybackRate", 7>>}
NextSettings ==
    \/ \E ch \in Channel, s \in Sources : Play(ch, s, FALSE, MaxSettingsCmds)
    \/ \E ch \in Channel : Plain(ch, "Stop", MaxSettingsCmds)
    \/ \E ch \in Channel, kv \in SettingChoices :
          SetValue(ch, kv[1], kv[2], MaxSettingsCmds)
    \/ \E key \in Keys : create_new_channel(key)
    \/ \E ch \in Channel, h \in 1..MaxHandles : Query(ch, h)
    \/ \E s \in Sources : LoadAsset(s)
    \/ \E ch \in Channel, i \in 1..MaxHandles : KiraStops(ch, i)
    \/ Engine

SpecSettings == InitOne /\ [][NextSettings]_vars

\* Callers of the registry: channels are created, overwritten, looked up and
\* removed while commands are played, stopped and set on them.
RegistryChoices == {<<"SetVolume", 3>>}
NextRegistry ==
    \/ \E ch \in Channel, s \in Sources : Play(ch, s, FALSE, MaxRegistryCmds)
    \/ \E ch \in Channel : Plain(ch, "Stop", MaxRegistryCmds)
    \/ \E ch \in Channel, kv \in RegistryChoices :
          SetValue(ch, kv[1], kv[2], MaxRegistryCmds)
    \/ Registry
    \/ \E ch \in Channel, h \in 1..MaxHandles : Query(ch, h)
    \/ \E s \in Sources : LoadAsset(s)
    \/ \E ch \in Channel, i \in 1..MaxHandles : KiraStops(ch, i)
    \/ Engine

SpecRegistry == Init /\ [][NextRegistry]_vars

\* Callers that play, stop, pause and set the panning on a typed and a dynamic
\* channel at once.
IsolationChoices == {<<"SetPanning", 3>>}
NextIsolation ==
    \/ \E ch \in Channel, s \in Sources : Play(ch, s, FALSE, MaxIsolationCmds)
    \/ \E ch \in Channel, k \in {"Stop", "Pause"} : Plain(ch, k, MaxIsolationCmds)
    \/ \E ch \in Channel, kv \in IsolationChoices :
          SetValue(ch, kv[1], kv[2], MaxIsolationCmds)
    \/ \E key \in Keys : create_new_channel(key)
    \/ \E s \in Sources : LoadAsset(s)
    \/ \E ch \in Channel, i \in 1..MaxHandles : KiraStops(ch, i)
    \/ Engine

SpecIsolation == Init /\ [][NextIsolation]_vars

\* ================================================================ claims
Seqs(q) == {q[i].seq : i \in 1..Len(q)}

\* C1: retry priority.  In a drain, the commands the previous drain of the
\* channel re-queued are all in the queue when the lock is taken, they are
\* older than every other command of the queue, they are attempted before
\* every other command, every one of them has been attempted when the drain
\* ends, and no command is attempted twice in one drain.
C1_RetryPriority ==
    cur.active =>
      /\ cur.carried \subseteq Seqs(cur.snapshot)
      /\ \A x \in cur.carried, y \in Seqs(cur.snapshot) \ cur.carried : x < y
      /\ \A i, j \in 1..Len(cur.attempted) :
            /\ (i < j /\ cur.attempted[j] \in cur.carried)
                  => cur.attempted[i] \in cur.carried
            /\ i /= j => cur.attempted[i] /= cur.attempted[j]
      /\ ~DrainContinues(cur, Commands(cur.channel))
            => cur.carried \subseteq Range(cur.attempted)

\* A drain has ended its loop having attempted a command carried over from the
\* previous drain and a command submitted since.
C1_Witness ==
    /\ cur.active
    /\ cur.i = cur.len
    /\ cur.carried /= {}
    /\ Range(cur.attempted) \ cur.carried /= {}

\* C2: bounded drain.  A drain attempts the commands that were in the queue
\* when it took the lock, oldest first, each once and no other: after i
\* iterations the attempts are the i commands at the back of that queue, i
\* never exceeds its length, and the queue holds no command that was not in it
\* when the lock was taken.
C2_BoundedDrain ==
    cur.active =>
      /\ cur.len = Len(cur.snapshot)
      /\ cur.i <= cur.len
      /\ Len(cur.attempted) = cur.i
      /\ \A j \in 1..Len(cur.attempted) :
            j <= cur.len /\ cur.attempted[j] = cur.snapshot[cur.len - j + 1].seq
      /\ Seqs(Commands(cur.channel)) \subseteq Seqs(cur.snapshot)

\* A drain of two or more commands has ended its loop with a command re-queued
\* and not attempted again.
C2_Witness ==
    /\ cur.active
    /\ cur.i = cur.len
    /\ cur.len >= 2
    /\ retried[cur.channel] /= {}
    /\ Len(Commands(cur.channel)) > 0

\* C3: command order is kept across retries.  No command is still waiting in
\* the queue of a channel when a command submitted after it on that channel
\* has completed (been attempted and not re-queued).
C3_OrderKeptAcrossRetries ==
    cur.active =>
      \A b \in Range(cur.attempted) \ retried[cur.channel] :
        \A a \in Seqs(Commands(cur.channel)) : b < a

LiveHandles(ch) == AllHandles(InstancesOf(instances, ch))
QueuedHandles(ch) ==
    {c.handle : c \in {d \in Elements(Commands(ch)) : d.kind = "Play"}}

\* C4: a Play is Queued while it waits for its asset and Playing once a tick
\* has executed it.  After a completed tick, on every channel, the handle of
\* every Play still in the queue resolves to Queued and the handle of every
\* live instance the backend reports Playing resolves to Playing.
C4_QueuedThenPlaying ==
    pc = "idle" =>
      \A ch \in Channel : Exists(ch) =>
        /\ \A h \in QueuedHandles(ch) : StateOf(ch, h) = "Queued"
        /\ \A i \in 1..Len(InstancesOf(instances, ch)) :
              instances[ch][i].state = "Playing"
                => StateOf(ch, instances[ch][i].handle) = "Playing"

\* C5: state(handle) is the published state of the handle if the channel has
\* one, else Queued if a Play with the handle is in the queue, else Stopped; a
\* handle that was never issued resolves to Stopped on every channel.
C5_StateQuery ==
    \A ch \in Channel, h \in 1..MaxHandles : Exists(ch) =>
      LET self == ChannelObj(ch)
          queued == \E c \in Elements(self.commands) :
                       c.kind = "Play" /\ c.handle = h
      IN  /\ h \in DOMAIN self.states => StateOf(ch, h) = self.states[h]
          /\ (h \notin DOMAIN self.states /\ queued) => StateOf(ch, h) = "Queued"
          /\ (h \notin DOMAIN self.states /\ ~queued) => StateOf(ch, h) = "Stopped"
          /\ h >= next_handle => StateOf(ch, h) = "Stopped"

\* A channel has one handle published and another one queued, the queued Play
\* being the newest command of the queue.
C5_Witness ==
    \E ch \in Channel, h1, h2 \in 1..MaxHandles :
      /\ Exists(ch)
      /\ h1 \in DOMAIN States(ch)
      /\ Len(Commands(ch)) > 0
      /\ Commands(ch)[1].kind = "Play"
      /\ Commands(ch)[1].handle = h2
      /\ StateOf(ch, h2) = "Queued"

\* C6: Stopped is absorbing.  A handle whose instance the backend reported
\* Stopped before a tick that has completed has no live instance record, is in
\* no queue, and resolves to Stopped on every channel, in every later state.
C6_StoppedAbsorbing ==
    \A h \in settled :
      /\ \A ch \in DOMAIN instances : h \notin LiveHandles(ch)
      /\ \A ch \in Channel : Exists(ch) =>
            /\ h \notin QueuedHandles(ch)
            /\ StateOf(ch, h) = "Stopped"

\* A later drain is executing commands on a typed channel that had published
\* a handle now pruned.
C6_Witness ==
    /\ settled /= {}
    /\ cur.active
    /\ cur.channel.tag = "Typed"
    /\ cur.i > 0

\* C7: state queries never observe a partial tick.  Of two queries of one
\* handle on one channel, made before and after any step, the first does not
\* return Stopped when the second returns Playing or Paused.
C7_NoPartialTick ==
    [][\A ch \in Channel, h \in 1..MaxHandles :
          (CanQuery(ch, h) /\ CanQuery(ch, h)'
             /\ StateOf(ch, h) = "Stopped")
          => StateOf(ch, h)' \notin {"Playing", "Paused"}]_vars

\* The queue contents, live records and settings of two channels agree up to
\* the identity of the handles.
SameQueue(p, q) ==
    /\ Len(p) = Len(q)
    /\ \A i \in 1..Len(p) :
          /\ p[i].kind = q[i].kind
          /\ p[i].source = q[i].source
          /\ p[i].value = q[i].value
SameRecords(p, q) ==
    /\ Len(p) = Len(q)
    /\ \A i \in 1..Len(p) : [p[i] EXCEPT !.handle = NoHandle]
                             = [q[i] EXCEPT !.handle = NoHandle]
SameSettings(c, d) ==
    /\ (c \in DOMAIN channels) = (d \in DOMAIN channels)
    /\ c \in DOMAIN channels => channels[c] = channels[d]

\* C8: typed and dynamic channels behave identically.  After a completed tick,
\* a typed and a dynamic channel with the same queue, the same live instance
\* records and the same settings give the same state for corresponding
\* handles.
C8_TypedDynamicIdentical ==
    pc = "idle" =>
      \A t \in TypedIds, k \in DOMAIN dynamic_channels :
        LET c == Typed(t)
            d == Dynamic(k)
            p == InstancesOf(instances, c)
            q == InstancesOf(instances, d)
        IN  (SameQueue(Commands(c), Commands(d)) /\ SameRecords(p, q)
               /\ SameSettings(c, d))
            => \A i \in 1..Len(p) :
                  StateOf(c, p[i].handle) = StateOf(d, q[i].handle)

\* The setting commands of a queue, and the value of the one submitted last.
HasKind(q, kind) == \E c \in Elements(q) : c.kind = kind
LastValue(q, kind) ==
    LET S == {c \in Elements(q) : c.kind = kind}
    IN  (CHOOSE c \in S : \A d \in S : d.seq <= c.seq).value
SettingFields ==
    {<<"SetVolume", "volume", DEFAULT_VOLUME>>,
     <<"SetPanning", "panning", DEFAULT_PANNING>>,
     <<"SetPlaybackRate", "playback_rate", DEFAULT_PLAYBACK_RATE>>}

\* C9: when a drain has attempted every command that was in the queue, each
\* stored setting of the channel is the value of the last command for that
\* setting in submission order; a setting with no command keeps the value it
\* had before the drain, or has its default if the settings record was created
\* by this drain; the record exists exactly if it existed before or the queue
\* held a setting command.
C9_LastSetWins ==
    (cur.active /\ cur.i = cur.len) =>
      LET ch == cur.channel
      IN  /\ (ch \in DOMAIN channels)
                = (ch \in DOMAIN cur.settings
                     \/ \E kind \in ValueKinds : HasKind(cur.snapshot, kind))
          /\ \A kf \in SettingFields :
                IF HasKind(cur.snapshot, kf[1])
                THEN /\ ch \in DOMAIN channels
                     /\ channels[ch][kf[2]] = LastValue(cur.snapshot, kf[1])
                ELSE IF ch \in DOMAIN cur.settings
                THEN /\ ch \in DOMAIN channels
                     /\ channels[ch][kf[2]] = cur.settings[ch][kf[2]]
                ELSE ch \in DOMAIN channels => channels[ch][kf[2]] = kf[3]

\* A drain has attempted a queue that held two SetVolume commands with
\* different values and a Play that was re-queued.
C9_Witness ==
    /\ cur.active
    /\ cur.i = cur.len
    /\ retried[cur.channel] /= {}
    /\ \E c, d \in Elements(cur.snapshot) :
          /\ c.kind = "SetVolume"
          /\ d.kind = "SetVolume"
          /\ c.value /= d.value

\* C10: dual effect of a setting change.  A drain step that executes a
\* setting command whose backend calls are all accepted leaves every live
\* instance of the channel and the stored channel setting at the value of the
\* command; a drain step that executes a Play on a channel that has a settings
\* record starts the new instance with the stored volume, panning and playback
\* rate.
C10_DualEffect ==
    [][(cur.active /\ cur'.active /\ cur'.i = cur.i + 1) =>
          LET ch == cur.channel
              audio_command == back(Commands(ch))
              before == InstancesOf(instances, ch)
              after == InstancesOf(instances', ch)
          IN  /\ \A kf \in SettingFields :
                    (audio_command.kind = kf[1]
                       /\ \A c \in Range(calls') : c.response = "ok")
                    => /\ ch \in DOMAIN channels'
                       /\ channels'[ch][kf[2]] = audio_command.value
                       /\ Len(calls') = Len(before)
                       /\ \A i \in 1..Len(after) :
                             after[i][kf[2]] = audio_command.value
              /\ (audio_command.kind = "Play" /\ Len(after) = Len(before) + 1
                    /\ ch \in DOMAIN channels)
                 => \A kf \in SettingFields :
                       after[Len(after)][kf[2]] = channels[ch][kf[2]]]_vars

\* A drain of a SetVolume followed by a Play has run both on a channel that
\* already had a live instance: the stored volume is the new one, and both the
\* older instance and the one just started hold it.
C10_Witness ==
    /\ cur.active
    /\ cur.i = 2
    /\ cur.len = 2
    /\ cur.snapshot[2].kind = "SetVolume"
    /\ cur.snapshot[1].kind = "Play"
    /\ retried[cur.channel] = {}
    /\ cur.channel \in DOMAIN channels
    /\ channels[cur.channel].volume /= DEFAULT_VOLUME
    /\ Len(InstancesOf(instances, cur.channel)) = 2
    /\ \A i \in 1..2 :
          instances[cur.channel][i].volume = channels[cur.channel].volume

\* C11: create_channel on an existing key discards the old queue.  A command
\* that was dropped with its channel object is in no queue and is attempted by
\* no drain, in every later state; the handle of a dropped Play has no live
\* instance and resolves to Stopped on every channel, the new one included.
C11_OverwriteDiscards ==
    \A c \in discarded :
      /\ \A ch \in Channel : Exists(ch) => c \notin Elements(Commands(ch))
      /\ cur.active => c.seq \notin Range(cur.attempted)
      /\ c.kind = "Play" =>
            /\ \A ch \in Channel : Exists(ch) => StateOf(ch, c.handle) = "Stopped"
            /\ \A ch \in DOMAIN instances : c.handle \notin LiveHandles(ch)

\* A queued Play was dropped by an overwrite of its channel, and a drain of the
\* new channel has since executed a later command.
C11_Witness ==
    /\ \E c \in discarded : c.kind = "Play"
    /\ \A c \in discarded : c.seq /= 0
    /\ cur.active
    /\ cur.channel.tag = "Dynamic"
    /\ cur.i > 0

\* C12: create_channel gives the channel fresh settings.  A drain step that
\* executes a Play on a dynamic channel on which no setting command has run
\* since the channel was created starts the instance with the volume, panning
\* and playback rate of the sound itself, whatever was set on an earlier channel
\* of the same key.
C12_FreshSettings ==
    [][(cur.active /\ cur'.active /\ cur'.i = cur.i + 1) =>
          LET ch == cur.channel
              audio_command == back(Commands(ch))
              before == InstancesOf(instances, ch)
              after == InstancesOf(instances', ch)
          IN  (ch.tag = "Dynamic" /\ audio_command.kind = "Play"
                 /\ Len(after) = Len(before) + 1 /\ ch \notin configured)
              => /\ after[Len(after)].volume = SourceSound.volume
                 /\ after[Len(after)].panning = SourceSound.panning
                 /\ after[Len(after)].playback_rate = SourceSound.playback_rate]_vars

\* C13: misuse of the registry is fatal and changes nothing.  channel(key) and
\* remove_channel(key) on a key that is not in the registry abort the process
\* and leave the registry, every queue, the live instances and the settings as
\* they were; channel(key) on a key that is in the registry does not abort and
\* leaves the registry as it was.
C13_MisuseIsFatal ==
    [][\A key \in Keys :
          /\ ((channel(key) \/ remove_channel(key))
                 /\ key \notin DOMAIN dynamic_channels)
             => /\ panicked'
                /\ dynamic_channels' = dynamic_channels
                /\ typed_channels' = typed_channels
                /\ instances' = instances
                /\ channels' = channels
          /\ (channel(key) /\ key \in DOMAIN dynamic_channels)
             => /\ ~panicked'
                /\ dynamic_channels' = dynamic_channels]_vars

\* The process aborted on a registry call after the key was removed, no Play
\* having ever been submitted, while a typed channel holds a queued command.
C13_Witness ==
    /\ panicked
    /\ next_handle = 1
    /\ PlainCommand("Stop", 0) \in discarded
    /\ DOMAIN dynamic_channels = {}
    /\ \E t \in TypedIds : Len(typed_channels[t].commands) > 0

\* C14: the Stop that remove_channel enqueues is never executed.  A
\* remove_channel step takes the key out of the registry, drops the Stop with
\* the queue, and makes no backend call and no change to the live instances;
\* afterwards that Stop is in no queue and in no drain's attempts, and a record
\* of a removed channel leaves the live instance table only when the backend
\* has reported it Stopped.
C14_RemoveNeverStops ==
    [][/\ \A key \in Keys :
             (remove_channel(key) /\ key \in DOMAIN dynamic_channels)
             => /\ key \notin DOMAIN dynamic_channels'
                /\ PlainCommand("Stop", 0) \in discarded'
                /\ instances' = instances
                /\ calls' = calls
       /\ cur'.active => 0 \notin Range(cur'.attempted)
       /\ \A key \in DOMAIN dynamic_channels' :
             PlainCommand("Stop", 0) \notin Elements(dynamic_channels'[key].commands)
       /\ \A key \in Keys :
             (key \notin DOMAIN dynamic_channels /\ Dynamic(key) \in DOMAIN instances)
             => \A i \in 1..Len(instances[Dynamic(key)]) :
                   LET r == instances[Dynamic(key)][i]
                   IN  r.handle \notin LiveHandles(Dynamic(key))'
                         => r.state = "Stopped"]_vars

\* A channel was removed while the backend was playing an instance on it: the
\* instance is still live and Playing, the channel is gone, and the drains of
\* the tick have run since without a backend call.
C14_Witness ==
    /\ PlainCommand("Stop", 0) \in discarded
    /\ DOMAIN dynamic_channels = {}
    /\ \E key \in Keys :
          /\ Dynamic(key) \in DOMAIN instances
          /\ Len(instances[Dynamic(key)]) > 0
          /\ instances[Dynamic(key)][1].state = "Playing"
    /\ pc = "update"
    /\ calls = <<>>

\* C15: degraded mode.  When the backend manager failed to initialise, no step
\* makes a backend call, starts an instance or aborts the process; the drain
\* of a typed channel and the drain of the dynamic channels leave every queue
\* they visit empty, and every handle resolves to Stopped on those channels
\* afterwards.
C15_DegradedDrops ==
    [][~manager =>
          /\ calls' = <<>>
          /\ instances' = instances
          /\ ~panicked'
          /\ \A t \in TypedIds : play_channel(t) =>
                /\ typed_channels'[t].commands = <<>>
                /\ \A h \in 1..MaxHandles : StateOf(Typed(t), h)' = "Stopped"
          /\ play_dynamic_channels =>
                \A key \in DOMAIN dynamic_channels' :
                  /\ dynamic_channels'[key].commands = <<>>
                  /\ \A h \in 1..MaxHandles : StateOf(Dynamic(key), h)' = "Stopped"]_vars

\* The latest command execution got no command-queue-full answer.
NoQueueFull == \A c \in Range(calls) : c.response /= "full"
StopQueued(ch) == Exists(ch) /\ HasKind(Commands(ch), "Stop")

\* C16: Stop retry is coarse-grained.  A drain step that executes a Stop
\* issues stop to the live instances of the channel in order, from the first
\* one, up to the first command-queue-full answer; the Stop is re-queued, once
\* and unchanged, exactly when such an answer was given, and otherwise every
\* live instance of the channel has been issued a stop, whatever other errors
\* were answered.  If the process never aborts and the backend eventually
\* stops answering command-queue-full, a queued Stop eventually leaves the
\* queue.
C16_StopRetry ==
    /\ [][(cur.active /\ cur'.active /\ cur'.i = cur.i + 1
             /\ back(Commands(cur.channel)).kind = "Stop") =>
            LET ch == cur.channel
                audio_command == back(Commands(ch))
                list == InstancesOf(instances, ch)
                full == \E c \in Range(calls') : c.response = "full"
                requeued == {i \in 1..Len(Commands(ch)') :
                               Commands(ch)'[i] = audio_command}
            IN  /\ Len(calls') <= Len(list)
                /\ \A j \in 1..Len(calls') :
                      /\ calls'[j].op = "stop"
                      /\ calls'[j].handle = list[j].handle
                      /\ calls'[j].response = "full" => j = Len(calls')
                /\ full <=> audio_command.seq \in retried'[ch]
                /\ full => requeued = {1}
                /\ ~full => (requeued = {} /\ Len(calls') = Len(list))
                /\ instances' = instances]_vars
    /\ ([]~panicked /\ <>[]NoQueueFull)
          => \A ch \in Channel : StopQueued(ch) ~> ~StopQueued(ch)

\* A Stop that an earlier drain re-queued has just been executed again and has
\* completed, having issued stop to every live instance of the channel.
C16_Witness ==
    /\ cur.active
    /\ cur.i > 0
    /\ cur.attempted[cur.i] \in cur.carried
    /\ cur.snapshot[cur.len - cur.i + 1].kind = "Stop"
    /\ cur.attempted[cur.i] \notin retried[cur.channel]
    /\ Len(calls) >= 1
    /\ Len(calls) = Len(InstancesOf(instances, cur.channel))
    /\ \A c \in Range(calls) : c.op = "stop"

\* C17: Pause, Resume, SetVolume, SetPanning and SetPlaybackRate are attempted
\* exactly once.  The drain step that executes one of them does not abort the
\* process, takes the command out of the queue and does not re-queue it,
\* whatever the backend answers; for a Set command the stored setting of the
\* channel is the value of the command afterwards, even when a backend call
\* failed.
C17_AttemptedOnce ==
    [][(cur.active /\ DrainContinues(cur, Commands(cur.channel))
          /\ back(Commands(cur.channel)).kind \in OnceKinds /\ DrainStep) =>
          LET ch == cur.channel
              audio_command == back(Commands(ch))
          IN  /\ ~panicked'
              /\ cur'.i = cur.i + 1
              /\ Commands(ch)' = pop_back(Commands(ch))
              /\ audio_command.seq \notin Seqs(Commands(ch)')
              /\ retried'[ch] = retried[ch]
              /\ \A kf \in SettingFields : audio_command.kind = kf[1] =>
                    /\ ch \in DOMAIN channels'
                    /\ channels'[ch][kf[2]] = audio_command.value]_vars

\* A SetVolume has just been executed on a channel with a live instance whose
\* backend call was refused: the instance keeps its volume, the stored setting
\* has the new one, and the command is gone from the queue.
C17_Witness ==
    /\ cur.active
    /\ cur.i > 0
    /\ cur.snapshot[cur.len - cur.i + 1].kind = "SetVolume"
    /\ Len(calls) = 1
    /\ calls[1].response = "full"
    /\ channels[cur.channel].volume = cur.snapshot[cur.len - cur.i + 1].value
    /\ instances[cur.channel][1].volume /= channels[cur.channel].volume
    /\ retried[cur.channel] = {}
    /\ Commands(cur.channel) = <<>>

\* C18: Pause acts on the Playing instances of the channel and Resume on the
\* Paused ones, and on nothing else.  The drain step that executes a Pause
\* (Resume) issues one pause (resume) call to each instance of the channel
\* whose backend state is Playing (Paused), in order, and no other call; the
\* other records of the channel, the records of every other channel, the set
\* of records and the channel settings are as before; with no such instance
\* the step makes no call and changes no record.
C18_PauseResumeFrame ==
    [][(cur.active /\ cur'.active /\ cur'.i = cur.i + 1
          /\ back(Commands(cur.channel)).kind \in {"Pause", "Resume"}) =>
          LET ch == cur.channel
              kind == back(Commands(ch)).kind
              from == IF kind = "Pause" THEN "Playing" ELSE "Paused"
              to == IF kind = "Pause" THEN "Paused" ELSE "Playing"
              op == IF kind = "Pause" THEN "pause" ELSE "resume"
              list == InstancesOf(instances, ch)
              after == InstancesOf(instances', ch)
              targets == SelectSeq(list, LAMBDA r : r.state = from)
          IN  /\ Len(calls') = Len(targets)
              /\ \A j \in 1..Len(calls') :
                    /\ calls'[j].op = op
                    /\ calls'[j].handle = targets[j].handle
              /\ DOMAIN instances' = DOMAIN instances
              /\ \A other \in DOMAIN instances \ {ch} :
                    instances'[other] = instances[other]
              /\ Len(after) = Len(list)
              /\ \A i \in 1..Len(list) :
                    IF list[i].state = from
                    THEN after[i] \in {list[i], [list[i] EXCEPT !.state = to]}
                    ELSE after[i] = list[i]
              /\ channels' = channels
              /\ Len(targets) = 0 => (calls' = <<>> /\ instances' = instances)]_vars

\* A Pause has just paused the one Playing instance of its channel with one
\* backend call, while an instance of another channel goes on Playing.
C18_Witness ==
    /\ cur.active
    /\ cur.i > 0
    /\ cur.snapshot[cur.len - cur.i + 1].kind = "Pause"
    /\ Len(calls) = 1
    /\ calls[1].op = "pause"
    /\ Len(InstancesOf(instances, cur.channel)) = 1
    /\ instances[cur.channel][1].state = "Paused"
    /\ \E other \in DOMAIN instances \ {cur.channel} :
          /\ Len(instances[other]) = 1
          /\ instances[other][1].state = "Playing"

\* C19: pruning.  The prune step of a tick leaves no record whose backend state
\* is Stopped, keeps every record whose state is not Stopped, in the order they
\* had, keeps the set of channels of the table, and changes no queue, no
\* published state and no channel setting.
C19_Pruning ==
    [][(pc = "dynamic" /\ pc' = "update") =>
          /\ DOMAIN instances' = DOMAIN instances
          /\ \A ch \in DOMAIN instances :
                LET before == instances[ch]
                    after == instances'[ch]
                    kept == {i \in 1..Len(before) : before[i].state /= "Stopped"}
                IN  /\ \A i \in 1..Len(after) : after[i].state /= "Stopped"
                    /\ Len(after) = Cardinality(kept)
                    /\ \A i \in kept :
                          after[Cardinality({j \in kept : j <= i})] = before[i]
          /\ typed_channels' = typed_channels
          /\ dynamic_channels' = dynamic_channels
          /\ channels' = channels]_vars

\* The prune step has just removed an instance that the backend reported
\* Stopped before this tick and has kept a Paused instance started after it.
C19_Witness ==
    /\ pc = "update"
    /\ todo = TypedIds
    /\ \E ch \in DOMAIN instances, h \in reported \ settled :
          /\ h \notin LiveHandles(ch)
          /\ Len(instances[ch]) = 1
          /\ instances[ch][1].state = "Paused"
          /\ instances[ch][1].handle > h

\* C20: queue conservation under drain.  When a drain has attempted every
\* command of the queue Q it found, the queue is the subsequence of Q made of
\* the commands whose attempt returned Retry, as the same values and in the
\* same order; while the drain runs, the queue is that subsequence of the
\* attempted part of Q followed by the part of Q not attempted yet.
C20_QueueConservation ==
    cur.active =>
      LET ch == cur.channel
          Q == cur.snapshot
          rest == SubSeq(Q, 1, cur.len - cur.i)
          done == SubSeq(Q, cur.len - cur.i + 1, cur.len)
          again == SelectSeq(done, LAMBDA c : c.seq \in retried[ch])
      IN  /\ Commands(ch) = again \o rest
          /\ cur.i = cur.len =>
                Commands(ch) = SelectSeq(Q, LAMBDA c : c.seq \in retried[ch])
          /\ \A i, j \in 1..Len(Commands(ch)) :
                i /= j => Commands(ch)[i] /= Commands(ch)[j]

\* A drain of three commands has ended: the oldest and the newest, both Plays,
\* were re-queued and the one between them completed.
C20_Witness ==
    /\ cur.active
    /\ cur.len = 3
    /\ cur.i = 3
    /\ cur.snapshot[3].kind = "Play"
    /\ cur.snapshot[1].kind = "Play"
    /\ retried[cur.channel] = {cur.snapshot[3].seq, cur.snapshot[1].seq}
    /\ Commands(cur.channel) = <<cur.snapshot[1], cur.snapshot[3]>>

\* C21: one live record per handle, created by an executed Play.  In every
\* state no two live instance records, of one channel or of two, carry the same
\* handle, and the handle of a Play that is in a queue is in no live instance
\* list and in no published state map; a step adds a record for a handle to
\* the live instances of a channel only as the drain step of that channel that
\* executes the Play carrying the handle while its asset is loaded.
C21_OneRecordPerHandle ==
    /\ [](/\ \A x, y \in DOMAIN instances :
               \A i \in 1..Len(instances[x]), j \in 1..Len(instances[y]) :
                  (x /= y \/ i /= j)
                     => instances[x][i].handle /= instances[y][j].handle
          /\ \A ch \in Channel : Exists(ch) =>
               \A h \in QueuedHandles(ch) :
                  /\ \A x \in DOMAIN instances : h \notin LiveHandles(x)
                  /\ \A y \in Channel : Exists(y) => h \notin DOMAIN States(y))
    /\ [][\A ch \in DOMAIN instances' :
            \A h \in LiveHandles(ch)' \ LiveHandles(ch) :
               /\ cur.active /\ cur.channel = ch
               /\ cur'.active /\ cur'.i = cur.i + 1
               /\ back(Commands(ch)).kind = "Play"
               /\ back(Commands(ch)).handle = h
               /\ back(Commands(ch)).source \in audio_sources]_vars

\* The drain of the typed channel has just executed a Play that an earlier
\* drain re-queued for its asset: its handle has a live record and is no more
\* in the queue, while the Play of another handle waits in the queue of the
\* dynamic channel.
C21_Witness ==
    /\ cur.active
    /\ cur.channel.tag = "Typed"
    /\ cur.i = 1
    /\ cur.snapshot[cur.len].kind = "Play"
    /\ cur.snapshot[cur.len].seq \in cur.carried
    /\ cur.snapshot[cur.len].handle \in LiveHandles(cur.channel)
    /\ cur.snapshot[cur.len].handle \notin QueuedHandles(cur.channel)
    /\ \E key \in DOMAIN dynamic_channels :
          QueuedHandles(Dynamic(key)) \ {cur.snapshot[cur.len].handle} /= {}

\* C22: channel isolation.  The drain step that executes a command of channel
\* X issues its backend calls to instances that were live under X only, and
\* leaves the live instances, the settings record, the queue and the published
\* states of every other channel as they were; the identity of a typed channel
\* differs from the identity of every dynamic channel, even under the same
\* name.
C22_ChannelIsolation ==
    /\ [][(cur.active /\ cur'.active /\ cur'.i = cur.i + 1) =>
            LET X == cur.channel
            IN  /\ \A c \in Range(calls') :
                      /\ c.handle \in LiveHandles(X)
                      /\ \A other \in Channel \ {X} : c.handle \notin LiveHandles(other)
                /\ \A other \in Channel \ {X} :
                      /\ (other \in DOMAIN instances') = (other \in DOMAIN instances)
                      /\ other \in DOMAIN instances
                            => instances'[other] = instances[other]
                      /\ (other \in DOMAIN channels') = (other \in DOMAIN channels)
                      /\ other \in DOMAIN channels
                            => channels'[other] = channels[other]
                      /\ Exists(other)' = Exists(other)
                      /\ Exists(other) => ChannelObj(other)' = ChannelObj(other)]_vars
    /\ \A x \in TypedIds \cup Keys : Typed(x) /= Dynamic(x)

\* Both channels have a Playing instance, and a Stop has just been executed on
\* one of them with one backend call.
C22_Witness ==
    /\ cur.active
    /\ cur.i > 0
    /\ cur.snapshot[cur.len - cur.i + 1].kind = "Stop"
    /\ Len(calls) = 1
    /\ calls[1].handle \in LiveHandles(cur.channel)
    /\ \E other \in Channel \ {cur.channel} :
          /\ other \in DOMAIN instances
          /\ Len(instances[other]) = 1
          /\ instances[other][1].state = "Playing"

\* C23: a new dynamic channel controls only its own sounds.  The drain step
\* that executes a command of a dynamic channel issues no backend call to an
\* instance that was live under the key when the channel of that key was last
\* replaced by create_channel or removed by remove_channel.
C23_NewChannelOwnSounds ==
    [][(cur.active /\ cur'.active /\ cur'.i = cur.i + 1
          /\ cur.channel.tag = "Dynamic") =>
          \A c \in Range(calls') : c.handle \notin inherited]_vars
====
